---- MODULE Spec2Model ----
(***************************************************************************)
(* Model of examples/system/ota/advanced_https_ota/pytest_advanced_ota.py  *)
(*                                                                         *)
(* One coordinator (the pytest function of a scenario) runs a script of    *)
(* steps: it constructs and starts service processes, waits for markers on *)
(* the device's text stream, writes endpoint URLs to the device, resets    *)
(* it, and stops the services in a finally block.  The service processes   *)
(* and the device run concurrently with the coordinator.                   *)
(***************************************************************************)
EXTENDS Integers, Sequences, FiniteSets, TLC

VARIABLES
    scn,      \* the scenario (test function) being run
    pc,       \* index of the next step of the scenario's script
    mode,     \* "run" (pre/try body), "finally" (teardown), "done"
    err,      \* the exception in flight or reported: "none" when there is none
    fin,      \* index of the next statement of the finally block
    bind,     \* local variable (thread1, thread2, thread3 / chunked_server) -> handle
    svc,      \* handle -> [st, stops, port, kind]: the service process behind it;
              \* st: "none" (no such object), "new" (constructed), "forked" (child
              \* running, socket not bound yet), "listening", "died" (exited on its
              \* own), "exited" (exited after a stop); stops: stop invocations
    stream,   \* every marker the device has emitted so far, in order
    cursor,   \* position in stream of the end of the last match (0: nothing read)
    matches,  \* positions in stream of the matches made so far, in order
    strays,   \* how many out-of-order markers the device has emitted
    resumed,  \* whether the device, after the hard reset, resumes the transfer
    delay,    \* the local `delay` of restart_device_with_random_delay (0: not in scope)
    instr,    \* number of device instructions issued (write, reset, erase, flash)
    resets,   \* number of hard resets issued
    cwd,      \* the working directory of the coordinator process
    \* --- one HTTP exchange between the device's client and the services ---
    req,      \* the request the client has sent: [port, method, path]
    resp,     \* what the handler has sent back for it
    hpc,      \* where the serving process is: "off", "accept" (in serve_forever),
              \* "handle", "flush", "close", "rfile" (inside the handler), "returned"
    wclosed,  \* whether the connection's write stream (wfile) is closed
    rclosed,  \* whether the connection's read stream (rfile) is closed
    escaped,  \* whether an exception has left a request handler
    sockerrs, \* number of socket errors raised on the connections so far
    hops,     \* number of redirects the client has followed
    visited,  \* the ports the client has connected to, in order
    retries,  \* number of requests the client has repeated after a failure
    \* --- one artifact-preparing statement sequence (fault injection) ---
    src,      \* advanced_https_ota.bin in the build directory: [exists, data]
    out,      \* the file the operation generates next to it: [exists, data]
    op,       \* the operation and its arguments
    fpc,      \* where the operation is: "off", "start", "opened", "patch", "pad",
              \* "first", "fill", "modify", "write", "done", "failed"
    buf,      \* the bytes held in memory (header / data)
    ferr,     \* the exception the operation raised: "none" when there is none
    orig,     \* src when the current run of the operation began
    outorig,  \* out when the current run of the operation began
    snap      \* per completed run of the operation: src before and after it

ScenarioVars == <<scn, pc, mode, err, fin, bind, svc, stream, cursor, matches, strays,
                  resumed, delay, instr, resets, cwd>>
HttpVars == <<req, resp, hpc, wclosed, rclosed, escaped, sockerrs, hops, visited, retries>>
FileVars == <<src, out, op, fpc, buf, ferr, orig, outorig, snap>>
vars == <<ScenarioVars, HttpVars, FileVars>>
\* what a step of the scenario, of an HTTP exchange, of a file operation leaves alone
NotScenario == <<HttpVars, FileVars>>
NotHttp == <<ScenarioVars, FileVars>>
NotFile == <<ScenarioVars, HttpVars>>

(***************************************************************************)
(* Bounds of the model.                                                    *)
(***************************************************************************)
\* how many markers the device may emit out of the order the scenario awaits
MaxStray == 1
\* how many ranged requests the partial-download scenario awaits: the value of
\* int(bin_size / request_size - 1) for the artifact and configuration in use
MaxHttpRequests == 2
\* how many redirects the client follows before it gives up
MaxHops == 4
\* how many times the client repeats a request that got no response
MaxRetry == 1
\* the artifact is any file of 0..MaxLen bytes, or one of HEADER_SIZE - 1 up to
\* HEADER_SIZE - 1 + MaxOver bytes (so the 64000- and 2000-byte reads return the
\* whole file, and the 180-byte read a proper prefix of the longer files)
MaxLen == 38
MaxOver == 2
\* how many times in a row an operation is run on the same build directory
MaxRuns == 2
\* the random padding is one of MaxPadSeed + 1 byte sequences
MaxPadSeed == 1
\* the lengths of random.bin the model generates: 1..MaxRandomLen bytes (the
\* scenario asks for 32000)
MaxRandomLen == 3

(***************************************************************************)
(* Program constants.                                                      *)
(***************************************************************************)
iterations == 3
server_port == 8001
redirection_server_port == 8081
redirection_server_port1 == 8082
chunked_port == 8070
resume_min_delay == 5
resume_max_delay == 15
HEADER_SIZE == 512
TARGET_OFFSET_MIN_REV == 15
TARGET_OFFSET_MAX_REV == 17
truncated_bin_size == 64000
truncated_header_size == 180
random_bin_size == 2000
chip_id_offset == 13
invalid_chip_id == 254
sec_version_offset == 36
DEFAULT_OTA_BUF_SIZE == 289
randrange_stop == 255
image_magic == 233
image_header_size == 288

\* the local variables that hold service handles
Vars == {"thread1", "thread2", "thread3", "chunked_server"}
\* the service processes a scenario can create, in order of construction
Handles == {1, 2, 3}

\* the log lines the scenarios wait for, and the one resumption-specific line
\* ("Resumed") that only a device resuming an interrupted transfer prints
Markers == {"Loaded", "IPv4", "StartExample", "StartOTA", "Success",
            "AppMainStart", "AppValid", "SecVerMismatch", "Resumed",
            "ConnClosed", "SsidPrompt", "Advertising",
            "ImageCorrupted", "ImgDescFailed", "BadMagic", "ChipIdMismatch",
            "ChipRevFailed"}

(***************************************************************************)
(* Steps of a script.                                                      *)
(***************************************************************************)
\* thread = multiprocessing.Process(target=..., args=(dir, ip, port)); thread.daemon = True
SNew(v, h, k, p) == [op |-> "new", var |-> v, h |-> h, kind |-> k, port |-> p]
\* thread.start()
SStart(v) == [op |-> "start", var |-> v]
\* chunked_server = start_chunked_server(dir, port): os.chdir + subprocess.Popen
SPopen(v, h, p) == [op |-> "popen", var |-> v, h |-> h, kind |-> "chunked", port |-> p]
\* variant: the timeout argument is dropped
SExpectUntimed(p, t) == [op |-> "expect", pat |-> p, tmo |-> 0, conv |-> FALSE]
\* dut.expect(pattern, timeout=t)
SExpect(p, t) == [op |-> "expect", pat |-> p, tmo |-> t, conv |-> FALSE]
\* try: dut.expect(IPv4 pattern, timeout=t) except TIMEOUT: raise ValueError(...)
SExpectIP(t) == [op |-> "expect", pat |-> "IPv4", tmo |-> t, conv |-> TRUE]
\* dut.expect(pattern): no timeout argument, the sequencer's default deadline applies
SExpectDefault(p) == [op |-> "expect", pat |-> p, tmo |-> 0, conv |-> FALSE]
\* dut.write(f'{ap_ssid} {ap_password}')
SWriteCred == [op |-> "writecred"]
\* dut.write('https://' + host_ip + ':' + str(port) + '/' + file)
SWrite(p, f) == [op |-> "write", port |-> p, file |-> f]
\* the call without arguments: the helper's defaults min_delay=10, max_delay=30
SDelayDefaults(lo, hi) == [op |-> "delay", lo |-> 10, hi |-> 30]

\* restart_device_with_random_delay: delay = random.randint(lo, hi); time.sleep(delay)
SDelay(lo, hi) == [op |-> "delay", lo |-> lo, hi |-> hi]
\* restart_device_with_random_delay: dut.serial.hard_reset(), then return
SReset == [op |-> "reset"]
\* thread.terminate() in the try body
STerm(v) == [op |-> "terminate", var |-> v]
\* a setup step on the device that may raise: erase_partition, erase_flash, flash
SDevSetup(n) == [op |-> "devsetup", name |-> n]
\* a setup step on the host that may raise: file generation, size computation, assert
SHostSetup(n) == [op |-> "hostsetup", name |-> n]
\* time.sleep(n)
SSleep(n) == [op |-> "sleep", secs |-> n]
\* try: os.remove(os.path.join(dut.app.binary_path, file)) except OSError: pass
SRemove(f) == [op |-> "remove", file |-> f, relative |-> FALSE]
\* try: os.remove(file) except OSError: pass
SRemoveRelative(f) == [op |-> "remove", file |-> f, relative |-> TRUE]

\* thread1 = Process(target=start_https_server, args=(dir, '0.0.0.0', server_port)); daemon; start
NewFileServer(h) == <<SNew("thread1", h, "file", server_port)>>

\* the common opening: boot marker, IPv4 address (converted timeout), readiness marker
Preamble(t) == <<SExpect("Loaded", t), SExpectIP(30), SExpect("StartExample", 30)>>

RECURSIVE Repeat(_, _)
Repeat(s, n) == IF n = 0 THEN <<>> ELSE s \o Repeat(s, n - 1)

(***************************************************************************)
(* The scenarios: pre = statements before the try, body = the try block,   *)
(* fin = the variables the finally block terminates, in order.             *)
(***************************************************************************)
\* test_examples_protocol_advanced_https_ota_example
PositiveScript ==
    [pre  |-> NewFileServer(1) \o <<SStart("thread1")>>,
     body |-> Repeat(Preamble(30) \o
                     <<SWrite(server_port, "advanced_https_ota.bin"),
                       SExpect("Success", 150)>>, iterations),
     fin  |-> <<"thread1">>]

\* variant: the first service is stopped before the wait and the reset
ResumptionScriptStopFirst ==
    [pre  |-> <<SDevSetup("erase_partition")>> \o NewFileServer(1) \o <<SStart("thread1")>>,
     body |-> Preamble(30) \o
              <<SWrite(server_port, "advanced_https_ota.bin"),
                SExpect("StartOTA", 60),
                STerm("thread1"),
                SDelay(resume_min_delay, resume_max_delay), SReset>> \o
              NewFileServer(2) \o <<SStart("thread1")>> \o
              Preamble(180) \o
              <<SWrite(server_port, "advanced_https_ota.bin"),
                SExpect("StartOTA", 60),
                SExpect("Success", 150)>>,
     fin  |-> <<"thread1">>]

\* test_examples_protocol_advanced_https_ota_example_ota_resumption
ResumptionScript ==
    [pre  |-> <<SDevSetup("erase_partition")>> \o NewFileServer(1) \o <<SStart("thread1")>>,
     body |-> Preamble(30) \o
              <<SWrite(server_port, "advanced_https_ota.bin"),
                SExpect("StartOTA", 60),
                SDelay(resume_min_delay, resume_max_delay), SReset,
                STerm("thread1")>> \o
              NewFileServer(2) \o <<SStart("thread1")>> \o
              Preamble(180) \o
              <<SWrite(server_port, "advanced_https_ota.bin"),
                SExpect("StartOTA", 60),
                SExpect("Success", 150)>>,
     fin  |-> <<"thread1">>]

\* test_examples_protocol_advanced_https_ota_example_ota_resumption_partial_download_request
ResumptionPartialScript ==
    [pre  |-> <<SHostSetup("http_requests"), SDevSetup("erase_partition")>> \o
              NewFileServer(1) \o <<SStart("thread1")>>,
     body |-> Preamble(30) \o
              <<SWrite(server_port, "advanced_https_ota.bin"),
                SDelay(resume_min_delay, resume_max_delay), SReset,
                STerm("thread1")>> \o
              NewFileServer(2) \o <<SStart("thread1")>> \o
              Preamble(180) \o
              <<SWrite(server_port, "advanced_https_ota.bin"),
                SExpect("StartOTA", 60),
                SExpect("Success", 150)>>,
     fin  |-> <<"thread1">>]

\* test_examples_protocol_advanced_https_ota_example_chunked
ChunkedScript ==
    [pre  |-> <<SPopen("chunked_server", 1, chunked_port)>>,
     body |-> Preamble(30) \o
              <<SWrite(chunked_port, "advanced_https_ota.bin"),
                SExpect("Success", 150),
                SExpect("Loaded", 30),
                SExpect("AppMainStart", 10)>>,
     fin  |-> <<"chunked_server">>]

\* test_examples_protocol_advanced_https_ota_example_redirect_url
RedirectScript ==
    [pre  |-> Preamble(30) \o
              <<SNew("thread1", 1, "file", server_port),
                SNew("thread2", 2, "redirect", redirection_server_port),
                SNew("thread3", 3, "redirect", redirection_server_port1),
                SStart("thread1"), SStart("thread2"), SStart("thread3"),
                SSleep(1)>>,
     body |-> <<SWrite(redirection_server_port, "advanced_https_ota.bin"),
                SExpect("Success", 150),
                SExpect("Loaded", 30),
                SExpect("AppMainStart", 10)>>,
     fin  |-> <<"thread1", "thread2", "thread3">>]

\* variant: the readiness marker of the negative case is awaited before the
\* "App is valid" marker instead of after it
AntiRollbackScriptSwapped ==
    [pre  |-> <<SDevSetup("erase_flash"), SDevSetup("flash"),
                SHostSetup("lower_sec_version")>> \o
              NewFileServer(1) \o <<SStart("thread1")>>,
     body |-> Preamble(30) \o
              <<SWrite(server_port, "advanced_https_ota.bin"),
                SExpect("Loaded", 60),
                SExpect("IPv4", 30),
                SExpect("StartExample", 30),
                SExpect("AppValid", 30),
                SWrite(server_port, "advanced_https_ota_lower_sec_version.bin"),
                SExpect("SecVerMismatch", 30),
                SRemove("advanced_https_ota_lower_sec_version.bin")>>,
     fin  |-> <<"thread1">>]

\* the downgraded artifact is offered without waiting for the first update to
\* be fetched, booted and confirmed
AntiRollbackScriptEager ==
    [pre  |-> <<SDevSetup("erase_flash"), SDevSetup("flash"),
                SHostSetup("lower_sec_version")>> \o
              NewFileServer(1) \o <<SStart("thread1")>>,
     body |-> Preamble(30) \o
              <<SWrite(server_port, "advanced_https_ota.bin"),
                SWrite(server_port, "advanced_https_ota_lower_sec_version.bin"),
                SExpect("Loaded", 60),
                SExpect("IPv4", 30),
                SExpect("AppValid", 30),
                SExpect("StartExample", 30),
                SExpect("SecVerMismatch", 30),
                SRemove("advanced_https_ota_lower_sec_version.bin")>>,
     fin  |-> <<"thread1">>]

\* test_examples_protocol_advanced_https_ota_example_anti_rollback
AntiRollbackScript ==
    [pre  |-> <<SDevSetup("erase_flash"), SDevSetup("flash"),
                SHostSetup("lower_sec_version")>> \o
              NewFileServer(1) \o <<SStart("thread1")>>,
     body |-> Preamble(30) \o
              <<SWrite(server_port, "advanced_https_ota.bin"),
                SExpect("Loaded", 60),
                SExpect("IPv4", 30),
                SExpect("AppValid", 30),
                SExpect("StartExample", 30),
                SWrite(server_port, "advanced_https_ota_lower_sec_version.bin"),
                SExpect("SecVerMismatch", 30),
                SRemove("advanced_https_ota_lower_sec_version.bin")>>,
     fin  |-> <<"thread1">>]

\* test_examples_protocol_advanced_https_ota_example_partial_request
PartialRequestScript ==
    [pre  |-> <<SHostSetup("http_requests")>> \o
              NewFileServer(1) \o <<SStart("thread1")>>,
     body |-> Preamble(30) \o
              <<SWrite(server_port, "advanced_https_ota.bin")>> \o
              Repeat(<<SExpect("ConnClosed", 60)>>, MaxHttpRequests) \o
              <<SExpect("Success", 60),
                SExpect("Loaded", 30),
                SExpect("AppMainStart", 20)>>,
     fin  |-> <<"thread1">>]

\* if dut.app.sdkconfig.get('EXAMPLE_WIFI_SSID_PWD_FROM_STDIN') is True: ...
StdinCredentials(stdin) ==
    IF stdin THEN <<SExpectDefault("SsidPrompt"), SWriteCred>> ELSE <<>>

\* test_examples_protocol_advanced_https_ota_example_nimble_gatts
NimbleScript(stdin) ==
    [pre  |-> NewFileServer(1) \o <<SStart("thread1")>>,
     body |-> <<SExpect("Loaded", 30)>> \o StdinCredentials(stdin) \o
              <<SExpectIP(30),
                SExpect("StartExample", 30),
                SWrite(server_port, "advanced_https_ota.bin"),
                SExpect("Success", 150),
                SExpect("Loaded", 30),
                SExpect("AppMainStart", 10)>>,
     fin  |-> <<"thread1">>]

\* test_examples_protocol_advanced_https_ota_example_bluedroid_gatts
BluedroidScript(stdin) ==
    [pre  |-> NewFileServer(1) \o <<SStart("thread1")>>,
     body |-> <<SExpect("Loaded", 30)>> \o StdinCredentials(stdin) \o
              <<SExpectIP(30),
                SExpect("Advertising", 30),
                SSleep(1),
                SWrite(server_port, "advanced_https_ota.bin"),
                SExpect("Success", 150),
                SExpect("Loaded", 30),
                SExpect("AppMainStart", 10)>>,
     fin  |-> <<"thread1">>]

\* a scenario that generates an artifact, serves it from a file server on
\* server_port, offers it to the device and waits for the device's verdict
ArtifactScript(mutation, file, verdict, t) ==
    [pre  |-> <<SHostSetup(mutation)>> \o NewFileServer(1) \o <<SStart("thread1")>>,
     body |-> Preamble(30) \o
              <<SWrite(server_port, file),
                SExpect(verdict, t),
                SRemove(file)>>,
     fin  |-> <<"thread1">>]

\* test_examples_protocol_advanced_https_ota_example_truncated_bin
TruncatedBinScript ==
    ArtifactScript("truncated_bin", "truncated.bin", "ImageCorrupted", 30)

\* variant: the truncated-header scenario waits for the generic corruption line
TruncatedHeaderScriptGeneric ==
    ArtifactScript("truncated_header", "truncated_header.bin", "ImageCorrupted", 30)

\* test_examples_protocol_advanced_https_ota_example_truncated_header
TruncatedHeaderScript ==
    ArtifactScript("truncated_header", "truncated_header.bin", "ImgDescFailed", 30)

\* test_examples_protocol_advanced_https_ota_example_random
RandomScript ==
    ArtifactScript("random", "random.bin", "BadMagic", 10)

\* test_examples_protocol_advanced_https_ota_example_invalid_chip_id
InvalidChipIdScript ==
    ArtifactScript("invalid_chip_id", "random.bin", "ChipIdMismatch", 10)

\* test_examples_protocol_advanced_https_ota_example_openssl_aligned_bin
AlignedScript ==
    [pre  |-> <<SHostSetup("aligned"), SPopen("chunked_server", 1, chunked_port)>>,
     body |-> Preamble(30) \o
              <<SWrite(chunked_port, "aligned.bin"),
                SExpect("Success", 150),
                SExpect("Loaded", 30),
                SExpect("AppMainStart", 10),
                SRemoveRelative("aligned.bin")>>,
     fin  |-> <<"chunked_server">>]

\* test_examples_protocol_advanced_https_ota_example_verify_min_chip_revision and
\* ..._verify_max_chip_revision: the build artifact itself is edited and served
ChipRevisionScript(mutation) ==
    [pre  |-> <<SHostSetup(mutation)>> \o NewFileServer(1) \o <<SStart("thread1")>>,
     body |-> Preamble(30) \o
              <<SWrite(server_port, "advanced_https_ota.bin"),
                SExpect("StartOTA", 60),
                SExpect("ChipRevFailed", 150)>>,
     fin  |-> <<"thread1">>]

Scenarios == {"positive", "resumption", "resumption_partial", "chunked",
              "redirect", "anti_rollback", "partial_request",
              "nimble_gatts", "nimble_gatts_stdin",
              "bluedroid_gatts", "bluedroid_gatts_stdin",
              "truncated_bin", "truncated_header", "random", "invalid_chip_id",
              "aligned", "min_chip_rev", "max_chip_rev"}

ScriptOf(s) ==
    CASE s = "positive" -> PositiveScript
      [] s = "resumption" -> ResumptionScript
      [] s = "resumption_partial" -> ResumptionPartialScript
      [] s = "chunked" -> ChunkedScript
      [] s = "redirect" -> RedirectScript
      [] s = "anti_rollback" -> AntiRollbackScript
      [] s = "truncated_bin" -> TruncatedBinScript
      [] s = "truncated_header" -> TruncatedHeaderScript
      [] s = "random" -> RandomScript
      [] s = "invalid_chip_id" -> InvalidChipIdScript
      [] s = "aligned" -> AlignedScript
      [] s = "min_chip_rev" -> ChipRevisionScript("min_chip_rev")
      [] s = "max_chip_rev" -> ChipRevisionScript("max_chip_rev")
      [] s = "partial_request" -> PartialRequestScript
      [] s = "nimble_gatts" -> NimbleScript(FALSE)
      [] s = "nimble_gatts_stdin" -> NimbleScript(TRUE)
      [] s = "bluedroid_gatts" -> BluedroidScript(FALSE)
      [] s = "bluedroid_gatts_stdin" -> BluedroidScript(TRUE)

\* the statements of each scenario in program order, before the finally block
StepTable == [s \in Scenarios |-> ScriptOf(s).pre \o ScriptOf(s).body]
Steps(s) == StepTable[s]
\* whether statement i lies inside the try block whose finally stops the services
InTry(s, i) == i > Len(ScriptOf(s).pre)
Finally(s) == ScriptOf(s).fin

(***************************************************************************)
(* State after the test function is entered.                               *)
(***************************************************************************)
\* the directory pytest was launched from, and dut.app.binary_path
LaunchDir == "launch_dir"
ota_image_dir == "binary_path"

NoService == [st |-> "none", stops |-> 0, port |-> 0, kind |-> "none"]

ScenarioInit ==
    /\ scn \in Scenarios
    /\ pc = 1
    /\ mode = "run"
    /\ err = "none"
    /\ fin = 1
    /\ bind = [v \in Vars |-> 0]
    /\ svc = [h \in Handles |-> NoService]
    /\ stream = <<>>
    /\ cursor = 0
    /\ matches = <<>>
    /\ strays = 0
    /\ resumed = FALSE
    /\ delay = 0
    /\ instr = 0
    /\ resets = 0
    /\ cwd = LaunchDir

NoReq == [port |-> 0, method |-> "none", path |-> "none"]
NoUrl == [scheme |-> "none", host |-> "none", port |-> 0, path |-> "none"]
NoResp == [status |-> 0, location |-> NoUrl, fileheaders |-> FALSE, body |-> FALSE]

\* no HTTP exchange is modelled
HttpOff ==
    /\ req = NoReq
    /\ resp = NoResp
    /\ hpc = "off"
    /\ wclosed = FALSE
    /\ rclosed = FALSE
    /\ escaped = FALSE
    /\ sockerrs = 0
    /\ hops = 0
    /\ visited = <<>>
    /\ retries = 0

Absent == [exists |-> FALSE, data |-> <<>>]
File(d) == [exists |-> TRUE, data |-> d]
NoOp == [kind |-> "none", size |-> 0, increment_min |-> FALSE,
         min_rev |-> [some |-> FALSE, val |-> 0],
         max_rev |-> [some |-> FALSE, val |-> 0], seed |-> 0]

\* no file operation is modelled
FileOff ==
    /\ src = Absent
    /\ out = Absent
    /\ op = NoOp
    /\ fpc = "off"
    /\ buf = <<>>
    /\ ferr = "none"
    /\ orig = Absent
    /\ outorig = Absent
    /\ snap = <<>>

Init == ScenarioInit /\ HttpOff /\ FileOff

(***************************************************************************)
(* Control flow of the coordinator.                                        *)
(***************************************************************************)
Cur == Steps(scn)[pc]
At(o) == mode = "run" /\ pc <= Len(Steps(scn)) /\ Cur.op = o

\* falling off the end of the try body enters the finally block
Advance ==
    /\ pc' = pc + 1
    /\ IF pc = Len(Steps(scn))
       THEN mode' = "finally" /\ fin' = 1
       ELSE mode' = mode /\ fin' = fin
    /\ err' = err

\* an exception inside the try block runs the finally block and is re-raised after
\* it; an exception before the try block leaves the function at once
Raise(e) ==
    /\ pc' = pc
    /\ err' = e
    /\ IF InTry(scn, pc)
       THEN mode' = "finally" /\ fin' = 1
       ELSE mode' = "done" /\ fin' = fin

\* variant: stop raises when the child has already exited
TerminateRaisesOnExited(h) == svc[h].st \in {"new", "died", "exited"}

\* Process.terminate() / Popen.kill(): raises only on a Process that was never
\* started (its _popen is None); on a live or an already exited child it returns
TerminateRaises(h) == svc[h].st = "new"

\* the handle after terminate()/kill(): one more stop has been invoked on it
Terminated(h) == [svc EXCEPT ![h].stops = @ + 1]

\* variant: the timeout is swallowed and the function carries on to its end
TimeoutSwallowed(step) == "none"

\* what an expectation that times out raises: the IPv4 expectations written inside
\* try/except convert pexpect's TIMEOUT to ValueError('ENV_TEST_FAILURE: ...')
TimeoutError(step) == IF step.conv THEN "ValueError" ELSE "TIMEOUT"

(***************************************************************************)
(* The expectation sequencer: dut.expect searches the device's output      *)
(* after the end of the previous match, and on a match moves past it.      *)
(***************************************************************************)
\* positions of pattern p in the unread part of the stream
Hits(p) == {i \in (cursor + 1)..Len(stream) : stream[i] = p}
MatchAvail(p) == Hits(p) # {}
\* the position dut.expect matches: the first occurrence after the cursor
MatchPos(p) == CHOOSE i \in Hits(p) : \A j \in Hits(p) : i <= j

\* the pattern of the next expectation the coordinator will reach
RECURSIVE NextPatFrom(_, _)
NextPatFrom(s, i) ==
    IF i > Len(Steps(s)) THEN "none"
    ELSE IF Steps(s)[i].op = "expect" THEN Steps(s)[i].pat
    ELSE NextPatFrom(s, i + 1)
NextPatTable == [s \in Scenarios |-> [i \in 1..(Len(Steps(s)) + 1) |-> NextPatFrom(s, i)]]
NextPat == NextPatTable[scn][pc]

DevUnch == <<stream, strays>>
SvcUnch == <<bind, svc>>
GhostUnch == <<resumed, delay, instr, resets>>
SeqUnch == <<cursor, matches>>

(***************************************************************************)
(* Coordinator steps.                                                      *)
(***************************************************************************)
StepNew ==
    /\ At("new")
    /\ bind' = [bind EXCEPT ![Cur.var] = Cur.h]
    /\ svc' = [svc EXCEPT ![Cur.h] =
                 [st |-> "new", stops |-> 0, port |-> Cur.port, kind |-> Cur.kind]]
    /\ Advance
    /\ UNCHANGED <<NotScenario, scn, cwd, DevUnch, SeqUnch, GhostUnch>>

\* Process.start() forks the child and returns; the child binds its socket later,
\* in start_https_server / start_redirect_server.  The fork may fail (OSError).
StepStart ==
    /\ At("start")
    /\ \/ /\ svc' = [svc EXCEPT ![bind[Cur.var]].st = "forked"]
          /\ Advance
       \/ /\ svc' = svc
          /\ Raise("OSError")
    /\ UNCHANGED <<NotScenario, scn, cwd, bind, DevUnch, SeqUnch, GhostUnch>>

\* start_chunked_server runs in the coordinator: os.chdir(ota_image_dir), then
\* subprocess.Popen, which returns once openssl is spawned
StepPopen ==
    /\ At("popen")
    /\ cwd' = ota_image_dir
    /\ \/ /\ bind' = [bind EXCEPT ![Cur.var] = Cur.h]
          /\ svc' = [svc EXCEPT ![Cur.h] =
                       [st |-> "forked", stops |-> 0, port |-> Cur.port, kind |-> Cur.kind]]
          /\ Advance
       \/ /\ UNCHANGED <<bind, svc>>
          /\ Raise("OSError")
    /\ UNCHANGED <<NotScenario, scn, DevUnch, SeqUnch, GhostUnch>>

StepExpectMatch ==
    /\ At("expect")
    /\ MatchAvail(Cur.pat)
    /\ cursor' = MatchPos(Cur.pat)
    /\ matches' = Append(matches, MatchPos(Cur.pat))
    /\ Advance
    /\ UNCHANGED <<NotScenario, scn, cwd, DevUnch, SvcUnch, GhostUnch>>

\* variant: only an expectation given a timeout argument ever times out
StepExpectTimeoutExplicitOnly ==
    /\ At("expect")
    /\ ~MatchAvail(Cur.pat)
    /\ Cur.tmo > 0
    /\ Raise(TimeoutError(Cur))
    /\ UNCHANGED <<NotScenario, scn, cwd, DevUnch, SvcUnch, SeqUnch, GhostUnch>>

\* the deadline (the timeout argument, or the sequencer's default when none is
\* given) passes with no occurrence of the pattern in the unread output
StepExpectTimeout ==
    /\ At("expect")
    /\ ~MatchAvail(Cur.pat)
    /\ Raise(TimeoutError(Cur))
    /\ UNCHANGED <<NotScenario, scn, cwd, DevUnch, SvcUnch, SeqUnch, GhostUnch>>

StepWrite ==
    /\ At("write")
    /\ instr' = instr + 1
    /\ Advance
    /\ UNCHANGED <<NotScenario, scn, cwd, DevUnch, SvcUnch, SeqUnch, resumed, delay, resets>>

\* the Wi-Fi credentials typed into the device's console
StepWriteCred ==
    /\ At("writecred")
    /\ instr' = instr + 1
    /\ Advance
    /\ UNCHANGED <<NotScenario, scn, cwd, DevUnch, SvcUnch, SeqUnch, resumed, delay, resets>>

StepDelay ==
    /\ At("delay")
    /\ delay' \in Cur.lo .. Cur.hi
    /\ Advance
    /\ UNCHANGED <<NotScenario, scn, cwd, DevUnch, SvcUnch, SeqUnch, resumed, instr, resets>>

\* the device reboots; whether it then resumes the interrupted transfer or starts
\* again from byte zero is the device's choice
StepReset ==
    /\ At("reset")
    /\ resets' = resets + 1
    /\ instr' = instr + 1
    /\ delay' = 0
    /\ resumed' \in BOOLEAN
    /\ Advance
    /\ UNCHANGED <<NotScenario, scn, cwd, DevUnch, SvcUnch, SeqUnch>>

StepTerm ==
    /\ At("terminate")
    /\ IF TerminateRaises(bind[Cur.var])
       THEN svc' = svc /\ Raise("AttributeError")
       ELSE svc' = Terminated(bind[Cur.var]) /\ Advance
    /\ UNCHANGED <<NotScenario, scn, cwd, bind, DevUnch, SeqUnch, GhostUnch>>

StepDevSetup ==
    /\ At("devsetup")
    /\ instr' = instr + 1
    /\ \/ Advance
       \/ Raise("OSError")
    /\ UNCHANGED <<NotScenario, scn, cwd, DevUnch, SvcUnch, SeqUnch, resumed, delay, resets>>

\* the statements before the services are created: an import check, or the
\* generation of the artifact; the statement returns when the file operation has
\* completed and raises what the file operation raised
StepHostSetup ==
    /\ At("hostsetup")
    /\ \/ fpc = "off" /\ (Advance \/ Raise("OSError"))
       \/ fpc = "done" /\ Advance
       \/ fpc = "failed" /\ Raise(ferr)
    /\ UNCHANGED <<NotScenario, scn, cwd, DevUnch, SvcUnch, SeqUnch, GhostUnch>>

StepSleep ==
    /\ At("sleep")
    /\ Advance
    /\ UNCHANGED <<NotScenario, scn, cwd, DevUnch, SvcUnch, SeqUnch, GhostUnch>>

\* os.remove inside try/except OSError: never raises.  The file is removed when
\* the name resolves to it (a relative name is resolved in the working
\* directory) and the removal succeeds; otherwise the OSError is swallowed.
StepRemove ==
    /\ At("remove")
    /\ \/ (~Cur.relative \/ cwd = ota_image_dir) /\ out' = Absent
       \/ out' = out
    /\ Advance
    /\ UNCHANGED <<HttpVars, src, op, fpc, buf, ferr, orig, outorig, snap,
                   scn, cwd, DevUnch, SvcUnch, SeqUnch, GhostUnch>>

\* one statement of the finally block: <var>.terminate() / chunked_server.kill().
\* An exception raised here replaces the one in flight and skips the rest.
FinallyStep ==
    /\ mode = "finally"
    /\ LET h == bind[Finally(scn)[fin]] IN
       IF TerminateRaises(h)
       THEN /\ svc' = svc
            /\ err' = "AttributeError"
            /\ mode' = "done"
            /\ fin' = fin
       ELSE /\ svc' = Terminated(h)
            /\ err' = err
            /\ fin' = fin + 1
            /\ mode' = IF fin = Len(Finally(scn)) THEN "done" ELSE "finally"
    /\ UNCHANGED <<NotScenario, scn, cwd, pc, bind, DevUnch, SeqUnch, GhostUnch>>

(***************************************************************************)
(* The service processes.                                                  *)
(***************************************************************************)
PortTaken(h) ==
    \E g \in Handles \ {h} : svc[g].st = "listening" /\ svc[g].port = svc[h].port

\* the child reaches HTTPServer((ip, port), handler), which binds and listens; when
\* the port is still held by another process the bind fails and the child exits
ServiceBind(h) ==
    /\ svc[h].st = "forked"
    /\ svc' = [svc EXCEPT ![h].st = IF PortTaken(h) THEN "exited" ELSE "listening"]
    /\ UNCHANGED <<NotScenario, scn, cwd, pc, mode, err, fin, bind, DevUnch, SeqUnch, GhostUnch>>

\* the service dies on its own before anyone stops it
ServiceDie(h) ==
    /\ svc[h].st \in {"forked", "listening"}
    /\ svc[h].stops = 0
    /\ mode # "done"
    /\ svc' = [svc EXCEPT ![h].st = "died"]
    /\ UNCHANGED <<NotScenario, scn, cwd, pc, mode, err, fin, bind, DevUnch, SeqUnch, GhostUnch>>

\* the signal sent by terminate()/kill() is delivered: the child exits and its
\* listening socket is released
ServiceExit(h) ==
    /\ svc[h].st \in {"forked", "listening"}
    /\ svc[h].stops > 0
    /\ svc' = [svc EXCEPT ![h].st = "exited"]
    /\ UNCHANGED <<NotScenario, scn, cwd, pc, mode, err, fin, bind, DevUnch, SeqUnch, GhostUnch>>

(***************************************************************************)
(* The device: it prints the line the coordinator waits for next, unless   *)
(* it stalls, and may print up to MaxStray lines out of that order.  The   *)
(* resumption-specific line is printed only by a device that resumed.      *)
(***************************************************************************)
Awaited(m) == m = NextPat /\ ~MatchAvail(m)

\* the lines some expectation of the scenario can match; any other line is
\* skipped by every dut.expect and changes nothing
PatternTable ==
    [s \in Scenarios |->
        {Steps(s)[i].pat : i \in {j \in 1..Len(Steps(s)) : Steps(s)[j].op = "expect"}}]
Patterns(s) == PatternTable[s]

\* lines the device can print in a scenario that none of the scenario's
\* expectations awaits: the success marker of a device that accepts the
\* downgraded artifact, and the other rejection line of a truncated image
UnexpectedTable ==
    [s \in Scenarios |->
        CASE s = "anti_rollback" -> {"Success"}
          [] s = "truncated_bin" -> {"ImgDescFailed"}
          [] s = "truncated_header" -> {"ImageCorrupted"}
          [] OTHER -> {}]
Unexpected(s) == UnexpectedTable[s]

DeviceEmit(m) ==
    /\ mode = "run"
    /\ m \in Patterns(scn) \cup {"Resumed"} \cup Unexpected(scn)
    /\ m = "Resumed" => resumed
    /\ \/ Awaited(m) /\ strays' = strays
       \/ ~Awaited(m) /\ strays < MaxStray /\ strays' = strays + 1
    /\ stream' = Append(stream, m)
    /\ UNCHANGED <<NotScenario, scn, cwd, pc, mode, err, fin, SvcUnch, SeqUnch, GhostUnch>>

Coordinator ==
    \/ StepNew \/ StepStart \/ StepPopen
    \/ StepExpectMatch \/ StepExpectTimeout
    \/ StepWrite \/ StepWriteCred \/ StepDelay \/ StepReset \/ StepTerm
    \/ StepDevSetup \/ StepHostSetup \/ StepSleep \/ StepRemove
    \/ FinallyStep

ScenarioNext ==
    \/ Coordinator
    \/ \E h \in Handles : ServiceBind(h) \/ ServiceDie(h) \/ ServiceExit(h)
    \/ \E m \in Markers : DeviceEmit(m)

Next == ScenarioNext

Spec == Init /\ [][Next]_vars

(***************************************************************************)
(* Vocabulary of the properties.                                           *)
(***************************************************************************)
Started(h) == svc[h].st \in {"forked", "listening", "died", "exited"}
Passed == mode = "done" /\ err = "none"
Failed == mode = "done" /\ err # "none"
ResumptionScenarios == {"resumption", "resumption_partial"}
IsExpect(st) == st.op = "expect"
\* the patterns of the scenario's expectations, in program order
ExpectPatTable ==
    [s \in Scenarios |-> [k \in 1..Len(SelectSeq(Steps(s), IsExpect)) |->
                             SelectSeq(Steps(s), IsExpect)[k].pat]]
ExpectPats(s) == ExpectPatTable[s]
\* the device instructions among the statements before statement i
IsInstr(st) == st.op \in {"write", "writecred", "reset", "devsetup"}
InstrBeforeTable ==
    [s \in Scenarios |-> [i \in 1..(Len(Steps(s)) + 1) |->
        Cardinality({j \in 1..(i - 1) : IsInstr(Steps(s)[j])})]]
\* the number of expectations of a resumption scenario before its hard reset
FirstPhaseTable ==
    [s \in ResumptionScenarios |->
        LET r == CHOOSE i \in 1..Len(Steps(s)) : Steps(s)[i].op = "reset"
        IN  Cardinality({j \in 1..r : IsExpect(Steps(s)[j])})]
FirstPhaseExpects(s) == FirstPhaseTable[s]
\* the coordinator (not a service, not the device) takes the step
CoordinatorMoves == pc' # pc \/ mode' # mode \/ fin' # fin
\* the coordinator's next statement invokes stop on handle h
StopInvoked(h) ==
    \/ mode = "finally" /\ bind[Finally(scn)[fin]] = h
    \/ At("terminate") /\ bind[Cur.var] = h

(***************************************************************************)
(* C1: when a scenario ends, on whatever exit path, every service handle   *)
(* that was started has been stopped (the failure is reported only then).  *)
(* Violated: in the redirect scenario the three start() calls stand before *)
(* the try block, so a failing thread2.start() leaves thread1 running.     *)
(***************************************************************************)
C1_EveryStartedServiceStopped ==
    mode = "done" => \A h \in Handles : Started(h) => svc[h].stops >= 1

(***************************************************************************)
(* C2: every started service handle has stop invoked exactly once over the *)
(* scenario: never twice at any time, and not zero times when the scenario *)
(* has ended.  Violated only through the exit path of C1.                  *)
(***************************************************************************)
C2_StopInvokedExactlyOnce ==
    /\ \A h \in Handles : svc[h].stops <= 1
    /\ mode = "done" => \A h \in Handles : Started(h) => svc[h].stops = 1

C4_StopBeforeWaitAndReset ==
    scn \in ResumptionScenarios =>
        /\ delay > 0 => svc[1].stops >= 1
        /\ resets >= 1 => svc[1].stops >= 1
        /\ Started(2) => resets >= 1
        /\ Len(matches) > FirstPhaseExpects(scn) => Started(2)

(***************************************************************************)
(* C4 amended: in a resumption scenario the randomized wait elapses, then  *)
(* the hard reset is issued, then the first service instance is stopped,   *)
(* then a fresh instance is started, then the expectations are re-driven;  *)
(* the coordinator has not stopped the first instance when it issues the   *)
(* hard reset.                                                             *)
(***************************************************************************)
C4_WaitResetStopStartRedrive ==
    scn \in ResumptionScenarios =>
        /\ delay > 0 => svc[1].stops = 0 /\ resets = 0
        /\ At("reset") => delay \in resume_min_delay..resume_max_delay /\ svc[1].stops = 0
        /\ (mode = "run" /\ svc[1].stops >= 1) => resets = 1
        /\ svc[2].st # "none" => svc[1].stops = 1 /\ resets = 1
        /\ Len(matches) > FirstPhaseExpects(scn) => Started(2)

\* a resumption scenario ran through the interruption and passed
C4_Witness ==
    /\ scn \in ResumptionScenarios
    /\ Passed
    /\ resets = 1
    /\ svc[1].stops = 1 /\ svc[2].stops = 1

(***************************************************************************)
(* C5: in both resumption scenarios the interruption (the randomized wait  *)
(* and the hard reset) begins only after "Starting OTA" has been matched   *)
(* in the first phase.  Violated: the partial-download scenario goes from  *)
(* dut.write straight to restart_device_with_random_delay.                 *)
(***************************************************************************)
C5_InterruptionAfterStartingOTA ==
    (scn \in ResumptionScenarios /\ (delay > 0 \/ resets >= 1)) =>
        \E k \in 1..Len(matches) :
            k <= FirstPhaseExpects(scn) /\ stream[matches[k]] = "StartOTA"

(***************************************************************************)
(* C6: a resumption scenario passes only if the device resumed the         *)
(* transfer after the reset.  Violated: the second phase awaits the same   *)
(* markers as a from-zero transfer and no resumption-specific one.         *)
(***************************************************************************)
C6_PassOnlyIfResumed ==
    (scn \in ResumptionScenarios /\ Passed) => resumed

(***************************************************************************)
(* C7: when a start returns the service's socket is bound, and whenever    *)
(* the coordinator writes an endpoint URL to the device the service on the *)
(* URL's port is listening.  Violated: start returns after the fork, the   *)
(* child binds later, and nothing orders the bind before the write.        *)
(***************************************************************************)
C7_ListeningWhenUrlWritten ==
    [][(At("write") /\ pc' = pc + 1) =>
          \E h \in Handles : svc[h].port = Cur.port /\ svc[h].st = "listening"]_vars

(***************************************************************************)
(* C8: the expectations are matched along one forward-moving cursor: the   *)
(* k-th match is an occurrence of the k-th expectation's pattern, it is    *)
(* the first one after the previous match, and a scenario passes only if   *)
(* all its patterns occur in the stream in program order; in the           *)
(* anti-rollback scenario the second readiness marker must come after the  *)
(* "App is valid" marker and the rejection marker after both.              *)
(***************************************************************************)
C8_ForwardOnlyMatching ==
    /\ Len(matches) <= Len(ExpectPats(scn))
    /\ \A k \in 1..Len(matches) :
          LET prev == IF k = 1 THEN 0 ELSE matches[k - 1] IN
          /\ matches[k] \in (prev + 1)..Len(stream)
          /\ stream[matches[k]] = ExpectPats(scn)[k]
          /\ \A j \in (prev + 1)..(matches[k] - 1) : stream[j] # ExpectPats(scn)[k]
    /\ cursor = IF matches = <<>> THEN 0 ELSE matches[Len(matches)]
    /\ Passed => Len(matches) = Len(ExpectPats(scn))
    /\ (scn = "anti_rollback" /\ Passed) =>
          \E i, j, k \in 1..Len(stream) :
              /\ i < j /\ j < k
              /\ stream[i] = "AppValid"
              /\ stream[j] = "StartExample"
              /\ stream[k] = "SecVerMismatch"

\* the anti-rollback scenario timed out waiting for the rejection marker although
\* the device had printed it earlier, before a match already made
C8_Witness ==
    /\ scn = "anti_rollback"
    /\ Failed
    /\ Cur.op = "expect" /\ Cur.pat = "SecVerMismatch"
    /\ \E i \in 1..cursor : stream[i] = "SecVerMismatch"

(***************************************************************************)
(* C9: whenever an expectation for the IPv4 address times out the scenario *)
(* fails with the connectivity failure (ValueError), and a timeout of any  *)
(* other expectation stays the generic TIMEOUT.  Violated: the second IPv4 *)
(* expectation of the anti-rollback scenario is not wrapped.               *)
(***************************************************************************)
C9_IPv4TimeoutIsConnectivityFailure ==
    (mode # "run" /\ err \in {"TIMEOUT", "ValueError"}) =>
        (err = "ValueError" <=> Cur.pat = "IPv4")

(***************************************************************************)
(* C10: a scenario passes if and only if every expectation matched and no  *)
(* step raised; after a timeout or an exception no further device          *)
(* instruction is issued (the instructions issued are exactly those of     *)
(* the statements up to the failing one).                                  *)
(***************************************************************************)
C10_PassIffAllMatched ==
    /\ mode = "done" =>
          (err = "none" <=> /\ pc = Len(Steps(scn)) + 1
                            /\ Len(matches) = Len(ExpectPats(scn)))
    /\ instr = InstrBeforeTable[scn][pc] +
               (IF err # "none" /\ Cur.op = "devsetup" THEN 1 ELSE 0)

\* the positive scenario failed in a later iteration after a full first iteration
C10_Witness ==
    /\ scn = "positive"
    /\ Failed
    /\ Len(matches) >= 4
    /\ instr >= 2

(***************************************************************************)
(* C11: every blocking wait of the coordinator is an expectation on the    *)
(* device's text stream that carries an explicit timeout; it performs no   *)
(* other kind of blocking wait.                                            *)
(* Violated: time.sleep in restart_device_with_random_delay, in the        *)
(* redirect and bluedroid scenarios, and the credentials prompt awaited    *)
(* without a timeout argument.                                             *)
(***************************************************************************)
\* the statements at which the coordinator blocks until something happens or a
\* time passes; every other statement returns as soon as its work is done
IsWait(st) == st.op \in {"expect", "delay", "sleep"}
AtStatement == mode = "run" /\ pc <= Len(Steps(scn))

C11_WaitsAreTimedExpectations ==
    (AtStatement /\ IsWait(Cur)) => (Cur.op = "expect" /\ Cur.tmo > 0)

(***************************************************************************)
(* C11 (amended): every blocking wait of the coordinator is either an      *)
(* expectation on the device's text stream or a sleep of bounded length    *)
(* (one second, or the random delay drawn between its two limits); every   *)
(* expectation carries an explicit timeout except the one for the          *)
(* credentials prompt, which passes none.                                  *)
(***************************************************************************)
C11_WaitsAreExpectationsOrBoundedSleeps ==
    (AtStatement /\ IsWait(Cur)) =>
        \/ Cur.op = "expect" /\ (Cur.tmo > 0 \/ Cur.pat = "SsidPrompt")
        \/ Cur.op = "sleep" /\ Cur.secs = 1
        \/ Cur.op = "delay" /\ Cur.lo = resume_min_delay /\ Cur.hi = resume_max_delay

\* the bluedroid scenario with credentials from stdin has passed: it went through
\* the prompt awaited without a timeout, the one-second sleep and timed expectations
C11_Witness ==
    /\ scn = "bluedroid_gatts_stdin"
    /\ Passed
    /\ Len(matches) = Len(ExpectPats(scn))

(***************************************************************************)
(* C12: whatever the device emits, nothing at all included, every scenario *)
(* eventually finishes: each expectation resolves by a match or by its     *)
(* timeout, and the coordinator reaches teardown and a verdict.            *)
(* The coordinator is a running process: a statement that can be executed  *)
(* is executed, and a deadline that can pass does pass (weak fairness).    *)
(***************************************************************************)
FairSpec == Spec /\ WF_vars(Coordinator)

Methods == {"GET", "HEAD", "POST"}
\* bin_name, the artifact every scenario of this model serves, and a file that
\* is not in the served directory
ArtifactPath == "/advanced_https_ota.bin"
Paths == {ArtifactPath, "/missing.bin"}
Exists(path) == path = ArtifactPath

Url(host, port, path) == [scheme |-> "https", host |-> host, port |-> port, path |-> path]

\* the kind of the service the redirect scenario starts on a port
ServerKind(port) ==
    LET st == CHOOSE x \in {Steps("redirect")[i] : i \in 1..Len(Steps("redirect"))} :
                  x.op = "new" /\ x.port = port
    IN  st.kind
ServerPorts == {server_port, redirection_server_port, redirection_server_port1}

\* variant: the second redirect service points back at the first one
RedirectionCycle(port) ==
    IF port = redirection_server_port THEN redirection_server_port1
    ELSE redirection_server_port

\* the redirection_port argument each redirect service is started with
RedirectionPort(port) ==
    IF port = redirection_server_port THEN redirection_server_port1
    ELSE server_port

\* the url start_redirect_server hands to redirect_handler_factory
RedirectUrl(port) == Url("server_ip", RedirectionPort(port), ArtifactPath)

Response(status, fh, body) ==
    [status |-> status, location |-> NoUrl, fileheaders |-> fh, body |-> body]

\* SimpleHTTPRequestHandler / RangeRequestHandler on a path of the served
\* directory: the file's headers, and for GET its bytes; 404 when it is missing;
\* 501 for a method the class has no do_<METHOD> for
ServeFile(method, path) ==
    IF method \notin {"GET", "HEAD"} THEN Response(501, FALSE, FALSE)
    ELSE IF ~Exists(path) THEN Response(404, FALSE, FALSE)
    ELSE Response(200, TRUE, method = "GET")

\* RedirectHandler: do_GET is the only method the class overrides; every other
\* method is dispatched to its base class SimpleHTTPRequestHandler
RedirectHandler(method, path, url) ==
    IF method = "GET"
    THEN [status |-> 301, location |-> url, fileheaders |-> FALSE, body |-> FALSE]
    ELSE ServeFile(method, path)

\* RequestHandler(RangeRequestHandler) of the file service
RequestHandler(method, path) == ServeFile(method, path)

\* what the handler class of the service on the request's port sends
Respond(r) ==
    IF ServerKind(r.port) = "redirect"
    THEN RedirectHandler(r.method, r.path, RedirectUrl(r.port))
    ELSE RequestHandler(r.method, r.path)

\* variant: finish() has no except clause
NoHandlers == {}
\* the exceptions caught around the base class's handle() in both handler classes
HandleCatches == {"socket.error"}
\* the exceptions caught around flush()/close() in RequestHandler.finish
FinishCatches == {"socket.error"}

\* a request of the client, to any of the three services
HttpInit ==
    /\ req \in [port : ServerPorts, method : Methods, path : Paths]
    /\ resp = NoResp
    /\ hpc = "accept"
    /\ wclosed = FALSE
    /\ rclosed = FALSE
    /\ escaped = FALSE
    /\ sockerrs = 0
    /\ hops = 0
    /\ visited = <<>>
    /\ retries = 0

\* serve_forever accepts the connection: a handler object with fresh rfile/wfile
Accept ==
    /\ hpc = "accept"
    /\ hpc' = "handle"
    /\ visited' = Append(visited, req.port)
    /\ resp' = NoResp
    /\ wclosed' = FALSE
    /\ rclosed' = FALSE
    /\ UNCHANGED <<NotHttp, req, escaped, sockerrs, hops, retries>>

\* the service whose handler has a finish() of its own
OwnFinish == ServerKind(req.port) = "file"

\* handle(): the base class reads the request and calls do_<METHOD>, which sends
\* the response
Handle ==
    /\ hpc = "handle"
    /\ resp' = Respond(req)
    /\ hpc' = IF OwnFinish THEN "flush" ELSE "rfile"
    /\ wclosed' = IF OwnFinish THEN wclosed ELSE TRUE
    /\ UNCHANGED <<NotHttp, req, rclosed, escaped, sockerrs, hops, visited, retries>>

\* handle(): the socket fails while the request is read or the response written;
\* the except clause of handle() decides whether the error leaves the handler.
\* finish() runs in either case (the handler's constructor calls it in a finally).
HandleSocketError ==
    /\ hpc = "handle"
    /\ sockerrs' = sockerrs + 1
    /\ escaped' = (escaped \/ "socket.error" \notin HandleCatches)
    /\ hpc' = IF OwnFinish THEN "flush" ELSE "rfile"
    /\ wclosed' = IF OwnFinish THEN wclosed ELSE TRUE
    /\ UNCHANGED <<NotHttp, req, resp, rclosed, hops, visited, retries>>

\* an exception raised inside the try block of RequestHandler.finish: caught, the
\* function goes on to rfile.close(); not caught, it leaves finish() at once
FinishRaise ==
    /\ sockerrs' = sockerrs + 1
    /\ IF "socket.error" \in FinishCatches
       THEN hpc' = "rfile" /\ escaped' = escaped
       ELSE hpc' = "returned" /\ escaped' = TRUE

\* RequestHandler.finish: if not self.wfile.closed: self.wfile.flush()
FinishFlush ==
    /\ hpc = "flush"
    /\ \/ hpc' = "close" /\ UNCHANGED <<escaped, sockerrs>>
       \/ FinishRaise
    /\ UNCHANGED <<NotHttp, req, resp, wclosed, rclosed, hops, visited, retries>>

\* RequestHandler.finish: self.wfile.close()
FinishClose ==
    /\ hpc = "close"
    /\ \/ hpc' = "rfile" /\ wclosed' = TRUE /\ UNCHANGED <<escaped, sockerrs>>
       \/ FinishRaise /\ wclosed' \in BOOLEAN
    /\ UNCHANGED <<NotHttp, req, resp, rclosed, hops, visited, retries>>

\* finish: self.rfile.close(), after which the handler returns
FinishRfileClose ==
    /\ hpc = "rfile"
    /\ rclosed' = TRUE
    /\ hpc' = "returned"
    /\ UNCHANGED <<NotHttp, req, resp, wclosed, escaped, sockerrs, hops, visited, retries>>

\* the client follows the Location of a redirect: a new connection to the
\* port of the url, asking for the path of the url
Follow ==
    /\ hpc = "returned"
    /\ resp.status = 301
    /\ hops < MaxHops
    /\ req' = [port |-> resp.location.port, method |-> req.method,
               path |-> resp.location.path]
    /\ hops' = hops + 1
    /\ hpc' = "accept"
    /\ UNCHANGED <<NotHttp, resp, wclosed, rclosed, escaped, sockerrs, visited, retries>>

\* the client got no response and sends the same request again
Retry ==
    /\ hpc = "returned"
    /\ resp = NoResp
    /\ retries < MaxRetry
    /\ retries' = retries + 1
    /\ hpc' = "accept"
    /\ UNCHANGED <<NotHttp, req, resp, wclosed, rclosed, escaped, sockerrs, hops, visited>>

\* the scenario during which the exchange happens: the redirect scenario, its
\* three services up, waiting for the device to report the upgrade
ScenarioWaiting == ScenarioInit /\ scn = "redirect"

HttpSpecInit == ScenarioWaiting /\ HttpInit /\ FileOff

HttpNext ==
    \/ Accept \/ Handle \/ HandleSocketError
    \/ FinishFlush \/ FinishClose \/ FinishRfileClose
    \/ Follow \/ Retry

HttpSpec == HttpSpecInit /\ [][HttpNext]_vars

\* the handler has run far enough for resp to be its answer to req
Answered == hpc \in {"flush", "close", "rfile", "returned"} /\ resp # NoResp
NoRepeats(seq) == \A i, j \in DOMAIN seq : i # j => seq[i] # seq[j]

(***************************************************************************)
(* C13: the redirect service answers every request, whatever its method    *)
(* and path, with the fixed redirect status and a Location header equal to *)
(* its configured target, and never sends file headers or file bytes.      *)
(* Violated: only do_GET is overridden, so a HEAD request is answered by   *)
(* SimpleHTTPRequestHandler with the headers of the file (or 404) and any  *)
(* other method with 501.                                                  *)
(***************************************************************************)
C13_RedirectAnswersEveryRequest ==
    (Answered /\ ServerKind(req.port) = "redirect") =>
        /\ resp.status = 301
        /\ resp.location = RedirectUrl(req.port)
        /\ ~resp.fileheaders
        /\ ~resp.body

(***************************************************************************)
(* C14: the redirect chain A -> B -> C set up by the redirect scenario has *)
(* no cycle: a GET sent to A reaches the file service C after exactly two  *)
(* redirects, no endpoint is connected to twice, and the request that      *)
(* arrives at C names the artifact path on the file service's port.        *)
(***************************************************************************)
C14_ChainOfTwoRedirects ==
    /\ hops <= 2
    /\ (visited # <<>> /\ visited[1] = redirection_server_port
            /\ req.method = "GET" /\ retries = 0) =>
        /\ NoRepeats(visited)
        /\ (Answered /\ resp.status # 301) =>
               /\ visited = <<redirection_server_port, redirection_server_port1,
                              server_port>>
               /\ hops = 2
               /\ req = [port |-> server_port, method |-> "GET", path |-> ArtifactPath]

\* the client went A -> B -> C and was sent the artifact's bytes by C
C14_Witness ==
    /\ visited = <<redirection_server_port, redirection_server_port1, server_port>>
    /\ hops = 2
    /\ hpc = "returned"
    /\ resp.status = 200
    /\ resp.body

(***************************************************************************)
(* C15: a socket error raised while the file service handles a request or  *)
(* flushes/closes the connection is suppressed at the handler: it never    *)
(* leaves the handler, the read side is still closed when the handler      *)
(* returns, and the service goes on to accept the next connection.         *)
(***************************************************************************)
C15_SocketErrorsSuppressed ==
    /\ ~escaped
    /\ (hpc = "returned" /\ ServerKind(req.port) = "file") => rclosed

\* the file service met a socket error on one connection, then accepted the
\* next one and served it
C15_Witness ==
    /\ visited = <<server_port, server_port>>
    /\ sockerrs >= 1
    /\ hpc = "returned"
    /\ rclosed
    /\ resp.status = 200

(***************************************************************************)
(* Fault injection: the statements with which a scenario prepares the      *)
(* artifact it serves.  Files are sequences of bytes (0..255); position i  *)
(* of a sequence is byte offset i - 1 of the file.                         *)
(***************************************************************************)
Min(a, b) == IF a < b THEN a ELSE b
Max(a, b) == IF a > b THEN a ELSE b

\* variant: the size argument is ignored and the whole file is read
ReadAll(data, n) == data

\* f.read(n): the first n bytes, or the whole file when it is shorter
Read(data, n) == SubSeq(data, 1, Min(n, Len(data)))

\* variant: the bytes are inserted at the position, shifting what follows
InsertAt(data, pos, bytes) ==
    SubSeq(data, 1, Min(pos, Len(data))) \o bytes \o SubSeq(data, pos + 1, Len(data))

\* f.seek(pos); f.write(bytes) on a file opened for update: the bytes replace
\* what is at pos..pos+len-1; a gap past the end of the file reads as zeros
WriteAt(data, pos, bytes) ==
    [i \in 1..Max(Len(data), pos + Len(bytes)) |->
        IF i > pos /\ i <= pos + Len(bytes) THEN bytes[i - pos]
        ELSE IF i <= Len(data) THEN data[i]
        ELSE 0]

\* variant: the file is opened with 'wb', which truncates it
WriteTruncating(data, header) == header

\* with open(app_path, 'r+b') as f: f.write(header)
WriteBack(data, header) == WriteAt(data, 0, header)

\* variant: no mask
NoMask(x) == x

\* x & 0xFF, bit by bit (Python integers: two's complement of unbounded width)
And0xFF(x) ==
    LET Bit(i) == (x \div (2 ^ i)) % 2
        RECURSIVE Sum(_)
        Sum(i) == IF i < 0 THEN 0 ELSE Bit(i) * (2 ^ i) + Sum(i - 1)
    IN  Sum(7)

\* variant: an explicit min_rev is applied first and the increment only without it
MinRevAfterExplicitFirst(old, o) ==
    IF o.min_rev.some THEN And0xFF(o.min_rev.val)
    ELSE IF o.increment_min THEN And0xFF(old + 1)
    ELSE old

\* the value modify_chip_revision leaves at TARGET_OFFSET_MIN_REV
MinRevAfter(old, o) ==
    IF o.increment_min THEN And0xFF(old + 1)
    ELSE IF o.min_rev.some THEN And0xFF(o.min_rev.val)
    ELSE old

\* variant: an assignment past the end of the header is silently dropped
IndexErrorNever(h, o) == FALSE

\* header[offset] = ... raises IndexError when the bytes read end before offset
IndexErrorIn(h, o) ==
    \/ (o.increment_min \/ o.min_rev.some) /\ Len(h) <= TARGET_OFFSET_MIN_REV
    \/ o.max_rev.some /\ Len(h) <= TARGET_OFFSET_MAX_REV

\* the header after the assignments of modify_chip_revision
ModifiedHeader(h, o) ==
    LET h1 == IF o.increment_min \/ o.min_rev.some
              THEN [h EXCEPT ![TARGET_OFFSET_MIN_REV + 1] =
                                MinRevAfter(h[TARGET_OFFSET_MIN_REV + 1], o)]
              ELSE h
    IN  IF o.max_rev.some
        THEN [h1 EXCEPT ![TARGET_OFFSET_MAX_REV + 1] = And0xFF(o.max_rev.val)]
        ELSE h1

\* dummy_data_size = 289 - (bin_size % 289)
DummyDataSize(bin_size) == DEFAULT_OTA_BUF_SIZE - (bin_size % DEFAULT_OTA_BUF_SIZE)
\* k times struct.pack('B', random.randrange(0, 255, 1)): one of the sequences
\* the generator can produce
PadBytes(k, seed) == [j \in 1..k |-> (seed + 11 * j) % randrange_stop]

\* how many bytes of a write that fails may have reached the file
CutPoints(b) == {k \in {0, 1, TARGET_OFFSET_MIN_REV + 1} : k < Len(b)}

\* the artifacts of the model: every byte but the one at TARGET_OFFSET_MIN_REV
\* follows a fixed pattern
Pattern(i) == (7 * i + 3) % 256
SourceBytes(n, v) ==
    [i \in 1..n |-> IF i = TARGET_OFFSET_MIN_REV + 1 THEN v ELSE Pattern(i)]
FileLens == (0..MaxLen) \cup {HEADER_SIZE - 1 + d : d \in 0..MaxOver}
\* the byte at TARGET_OFFSET_MIN_REV takes every value on the shortest file that
\* holds both revision fields, and these values on the other files
ByteSamples == {0, 1, 127, 254, 255}
Sources ==
    {Absent} \cup {File(SourceBytes(n, v)) : n \in FileLens, v \in ByteSamples}
             \cup {File(SourceBytes(TARGET_OFFSET_MAX_REV + 1, v)) : v \in 0..255}

\* the operations and their arguments
None == [some |-> FALSE, val |-> 0]
Some(x) == [some |-> TRUE, val |-> x]
\* the random values the model draws for a byte of random.bin: the two ends of
\* random.randrange(0, 255, 1) and the image magic
RandomSamples == {0, image_magic, randrange_stop - 1}
\* variant: the first byte is drawn like the others
FirstByteRandom(r) == r
\* struct.pack('B', 0): the first byte does not depend on the generator
FirstByte(r) == 0
RandomOps == {[NoOp EXCEPT !.kind = "random", !.size = n] : n \in 1..MaxRandomLen}
\* random.bin is generated without reading the build artifact: a build directory
\* without it and one with it
RandomSources == {Absent, File(SourceBytes(MaxLen, 0))}

TruncateOps ==
    {[NoOp EXCEPT !.kind = "truncate", !.size = z] :
        z \in {truncated_bin_size, truncated_header_size}}
ChipIdOp == [NoOp EXCEPT !.kind = "chip_id", !.size = random_bin_size]
SecVersionOp == [NoOp EXCEPT !.kind = "sec_version"]
AlignOps == {[NoOp EXCEPT !.kind = "align", !.seed = r] : r \in 0..MaxPadSeed}
MinRevArgs == {None, Some(0), Some(255), Some(257), Some(0 - 1)}
MaxRevArgs == {None, Some(2), Some(258)}
ChipRevOps ==
    {[NoOp EXCEPT !.kind = "chip_rev", !.increment_min = inc,
                  !.min_rev = mn, !.max_rev = mx] :
        inc \in BOOLEAN, mn \in MinRevArgs, mx \in MaxRevArgs}
Ops == TruncateOps \cup {ChipIdOp, SecVersionOp} \cup AlignOps \cup ChipRevOps
\* the bytes whose offsets the operation assigns
Touched(o) ==
    CASE o.kind = "chip_id" -> {chip_id_offset}
      [] o.kind = "sec_version" -> {sec_version_offset}
      [] o.kind = "chip_rev" -> {TARGET_OFFSET_MIN_REV, TARGET_OFFSET_MAX_REV}
      [] OTHER -> {}

\* a build directory with the artifact (or without it), and one operation
FileInit ==
    /\ \/ src \in Sources /\ op \in Ops
       \/ src \in RandomSources /\ op \in RandomOps
    /\ out = Absent
    /\ fpc = "start"
    /\ buf = <<>>
    /\ ferr = "none"
    /\ orig = src
    /\ outorig = out
    /\ snap = <<>>

\* the operation raises e
Fail(e) == fpc' = "failed" /\ ferr' = e /\ snap' = snap
\* the operation returns, leaving s as the artifact and o as the generated file
Complete(s, o) ==
    /\ fpc' = "done"
    /\ ferr' = ferr
    /\ snap' = Append(snap, [before |-> orig, after |-> s, out |-> o])

\* os.path.getsize(binary_file) / open(binary_file, 'rb+'), then
\* open(<generated file>, 'wb+'), which creates the file or empties it
OpenOutput ==
    /\ fpc = "start"
    /\ op.kind \in {"truncate", "sec_version", "align"}
    /\ IF ~src.exists
       THEN Fail("FileNotFoundError") /\ out' = out
       ELSE out' = File(<<>>) /\ fpc' = "opened" /\ UNCHANGED <<ferr, snap>>
    /\ UNCHANGED <<NotFile, src, op, buf, orig, outorig>>

\* output_file.write(f.read(size)); size is the file's own size for the
\* security-version and alignment operations
CopyWrite ==
    /\ fpc = "opened"
    /\ LET size == IF op.kind = "truncate" THEN op.size ELSE Len(src.data)
           data == Read(src.data, size)
       IN  \/ /\ out' = File(data)
              /\ buf' = data
              /\ IF op.kind = "truncate"
                 THEN Complete(src, out')
                 ELSE /\ fpc' = (IF op.kind = "sec_version" THEN "patch" ELSE "pad")
                      /\ UNCHANGED <<ferr, snap>>
           \/ \E k \in CutPoints(data) :
                 /\ out' = File(SubSeq(data, 1, k))
                 /\ buf' = data
                 /\ Fail("OSError")
    /\ UNCHANGED <<NotFile, src, op, orig, outorig>>

\* output_file.seek(36); output_file.write(b'\x00')
SecPatch ==
    /\ fpc = "patch"
    /\ \/ /\ out' = File(WriteAt(out.data, sec_version_offset, <<0>>))
          /\ Complete(src, out')
       \/ out' = out /\ Fail("OSError")
    /\ UNCHANGED <<NotFile, src, op, buf, orig, outorig>>

\* for _ in range(dummy_data_size): output_file.write(<random byte>)
PadWrite ==
    /\ fpc = "pad"
    /\ \/ /\ out' = File(out.data \o PadBytes(DummyDataSize(Len(src.data)), op.seed))
          /\ Complete(src, out')
       \/ \E j \in {0, 1} :
             /\ out' = File(out.data \o PadBytes(j, op.seed))
             /\ Fail("OSError")
    /\ UNCHANGED <<NotFile, src, op, buf, orig, outorig>>

\* with open(binary_file, 'wb+') as output_file: random.bin is created or emptied
RandomOpen ==
    /\ fpc = "start"
    /\ op.kind = "random"
    /\ out' = File(<<>>)
    /\ fpc' = "first"
    /\ UNCHANGED <<NotFile, src, op, buf, ferr, orig, outorig, snap>>

\* output_file.write(struct.pack('B', 0))
RandomFirst ==
    /\ fpc = "first"
    /\ \/ \E r \in RandomSamples :
             /\ out' = File(<<FirstByte(r)>>)
             /\ IF op.size = 1
                THEN Complete(src, out')
                ELSE fpc' = "fill" /\ UNCHANGED <<ferr, snap>>
       \/ out' = out /\ Fail("OSError")
    /\ UNCHANGED <<NotFile, src, op, buf, orig, outorig>>

\* for i in range(random_bin_size - 1):
\*     output_file.write(struct.pack('B', random.randrange(0, 255, 1)))
RandomFill ==
    /\ fpc = "fill"
    /\ \/ \E r \in RandomSamples :
             /\ out' = File(Append(out.data, r))
             /\ IF Len(out.data) + 1 = op.size
                THEN Complete(src, out')
                ELSE UNCHANGED <<fpc, ferr, snap>>
       \/ out' = out /\ Fail("OSError")
    /\ UNCHANGED <<NotFile, src, op, buf, orig, outorig>>

\* data = list(f.read(random_bin_size)); data[13] = 0xFE
ChipIdRead ==
    /\ fpc = "start"
    /\ op.kind = "chip_id"
    /\ IF ~src.exists
       THEN Fail("FileNotFoundError") /\ buf' = buf
       ELSE LET data == Read(src.data, op.size) IN
            IF Len(data) <= chip_id_offset
            THEN Fail("IndexError") /\ buf' = data
            ELSE /\ buf' = [data EXCEPT ![chip_id_offset + 1] = invalid_chip_id]
                 /\ fpc' = "write"
                 /\ UNCHANGED <<ferr, snap>>
    /\ UNCHANGED <<NotFile, src, out, op, orig, outorig>>

\* with open(random_binary_file, 'wb+') as output_file: output_file.write(bytearray(data))
ChipIdWrite ==
    /\ fpc = "write"
    /\ op.kind = "chip_id"
    /\ \/ out' = File(buf) /\ Complete(src, out')
       \/ \E k \in CutPoints(buf) : out' = File(SubSeq(buf, 1, k)) /\ Fail("OSError")
    /\ UNCHANGED <<NotFile, src, op, buf, orig, outorig>>

\* modify_chip_revision: the existence check, then header = bytearray(f.read(HEADER_SIZE));
\* an IOError of the open or the read is re-raised as RuntimeError
RevRead ==
    /\ fpc = "start"
    /\ op.kind = "chip_rev"
    /\ IF ~src.exists
       THEN Fail("FileNotFoundError") /\ buf' = buf
       ELSE \/ buf' = Read(src.data, HEADER_SIZE) /\ fpc' = "modify" /\ UNCHANGED <<ferr, snap>>
            \/ buf' = buf /\ Fail("RuntimeError")
    /\ UNCHANGED <<NotFile, src, out, op, orig, outorig>>

\* modify_chip_revision: the assignments to header[...]
RevModify ==
    /\ fpc = "modify"
    /\ IF IndexErrorIn(buf, op)
       THEN Fail("IndexError") /\ buf' = buf
       ELSE buf' = ModifiedHeader(buf, op) /\ fpc' = "write" /\ UNCHANGED <<ferr, snap>>
    /\ UNCHANGED <<NotFile, src, out, op, orig, outorig>>

\* modify_chip_revision: the header is written back over the start of the file;
\* an IOError is re-raised as RuntimeError
RevWrite ==
    /\ fpc = "write"
    /\ op.kind = "chip_rev"
    /\ \/ src' = File(WriteBack(src.data, buf)) /\ Complete(src', out)
       \/ \E k \in CutPoints(buf) :
             /\ src' = File(WriteBack(src.data, SubSeq(buf, 1, k)))
             /\ Fail("RuntimeError")
    /\ UNCHANGED <<NotFile, out, op, buf, orig, outorig>>

\* the scenario is run once more on the same build directory
Again ==
    /\ fpc = "done"
    /\ Len(snap) < MaxRuns
    /\ fpc' = "start"
    /\ orig' = src
    /\ outorig' = out
    /\ buf' = <<>>
    /\ UNCHANGED <<NotFile, src, out, op, ferr, snap>>

\* the artifact is prepared at the top of the test function
ScenarioEntered == ScenarioInit /\ scn = "anti_rollback"

FileSpecInit == ScenarioEntered /\ HttpOff /\ FileInit

FileNext ==
    \/ OpenOutput \/ CopyWrite \/ SecPatch \/ PadWrite
    \/ RandomOpen \/ RandomFirst \/ RandomFill
    \/ ChipIdRead \/ ChipIdWrite
    \/ RevRead \/ RevModify \/ RevWrite
    \/ Again

FileSpec == FileSpecInit /\ [][FileNext]_vars

\* the file an operation produces: the artifact itself for the in-place header
\* edit, the generated file for the others
Result == IF op.kind = "chip_rev" THEN src.data ELSE out.data
SameExceptAt(new, old, offsets) ==
    \A i \in 1..Min(Len(new), Len(old)) : (i - 1) \notin offsets => new[i] = old[i]

(***************************************************************************)
(* C16: for every fault-injection operation (truncation, chip-id override, *)
(* security-version override, revision-header edit, alignment padding),    *)
(* every byte of the result that lies within the source's length and is    *)
(* not at an offset the operation assigns equals the source's byte; the    *)
(* result is as long as the source, a prefix of it, or the source plus     *)
(* appended bytes.  The operations that generate a file leave the source   *)
(* as it was.                                                              *)
(***************************************************************************)
C16_OnlyDocumentedOffsetsTouched ==
    (fpc = "done" /\ op.kind # "random") =>
        /\ SameExceptAt(Result, orig.data, Touched(op))
        /\ op.kind \in {"truncate", "chip_id"} => Len(Result) <= Len(orig.data)
        /\ op.kind \in {"sec_version", "align"} => Len(Result) >= Len(orig.data)
        /\ op.kind = "chip_rev" => Len(Result) = Len(orig.data)
        /\ op.kind # "chip_rev" => src = orig

\* the security-version override has zeroed byte 36 of a copy of an artifact
\* that is longer than that and holds another value there
C16_Witness ==
    /\ fpc = "done"
    /\ op.kind = "sec_version"
    /\ Len(orig.data) > sec_version_offset + 1
    /\ orig.data[sec_version_offset + 1] # 0
    /\ out.data[sec_version_offset + 1] = 0

(***************************************************************************)
(* C17: modify_chip_revision, for every combination of its arguments and   *)
(* on every file on which it succeeds (shorter or longer than the 512-byte *)
(* header region), preserves the file's length and leaves every byte other *)
(* than those at offsets 0x0F and 0x11 identical.                          *)
(***************************************************************************)
C17_ChipRevisionKeepsTheRest ==
    (fpc = "done" /\ op.kind = "chip_rev") =>
        /\ Len(src.data) = Len(orig.data)
        /\ \A i \in 1..Len(orig.data) :
              (i - 1) \notin {TARGET_OFFSET_MIN_REV, TARGET_OFFSET_MAX_REV}
                  => src.data[i] = orig.data[i]

\* both fields of an artifact longer than the header region have been changed
C17_Witness ==
    /\ fpc = "done"
    /\ op.kind = "chip_rev"
    /\ Len(orig.data) > HEADER_SIZE
    /\ src.data[TARGET_OFFSET_MIN_REV + 1] # orig.data[TARGET_OFFSET_MIN_REV + 1]
    /\ src.data[TARGET_OFFSET_MAX_REV + 1] # orig.data[TARGET_OFFSET_MAX_REV + 1]

(***************************************************************************)
(* C18: the minimum-revision increment stores (v + 1) mod 256 for every    *)
(* old value v in 0..255 (255 becomes 0); the set operations store the     *)
(* supplied value modulo 256; no neighbouring byte receives a carry.       *)
(***************************************************************************)
C18_RevisionFieldsAreEightBit ==
    (fpc = "done" /\ op.kind = "chip_rev") =>
        LET old == orig.data
            new == src.data
            mn == TARGET_OFFSET_MIN_REV + 1
            mx == TARGET_OFFSET_MAX_REV + 1
        IN  /\ \A i \in 1..Len(new) : new[i] \in 0..255
            /\ Len(old) >= mn =>
                  /\ new[mn] = IF op.increment_min THEN (old[mn] + 1) % 256
                               ELSE IF op.min_rev.some THEN op.min_rev.val % 256
                               ELSE old[mn]
                  /\ new[mn - 1] = old[mn - 1]
            /\ Len(old) >= mn + 1 => new[mn + 1] = old[mn + 1]
            /\ Len(old) >= mx =>
                  new[mx] = IF op.max_rev.some THEN op.max_rev.val % 256 ELSE old[mx]
            /\ Len(old) >= mx + 1 => new[mx + 1] = old[mx + 1]

\* the increment has taken the field from 255 to 0
C18_Witness ==
    /\ fpc = "done"
    /\ op.kind = "chip_rev"
    /\ op.increment_min
    /\ orig.data[TARGET_OFFSET_MIN_REV + 1] = 255
    /\ src.data[TARGET_OFFSET_MIN_REV + 1] = 0

(***************************************************************************)
(* C19: incrementing the minimum-revision field is idempotent: applying    *)
(* the increment edit twice (running the minimum-revision scenario twice   *)
(* on the same build directory) leaves the same artifact as applying it    *)
(* once.                                                                   *)
(* Violated: the edit is made in place on advanced_https_ota.bin, so the   *)
(* second run increments what the first run left.                          *)
(***************************************************************************)
C19_IncrementTwiceSameAsOnce ==
    (Len(snap) = 2 /\ op.kind = "chip_rev" /\ op.increment_min) =>
        snap[2].after = snap[1].after

(***************************************************************************)
(* C20: every mutation is all-or-nothing: when the operation fails or is   *)
(* interrupted between its first and its last write, no partially written  *)
(* output file and no partially modified header is left in place.          *)
(* Violated: the generated file is opened with 'wb+' and written directly, *)
(* and the header is overwritten in place.                                 *)
(***************************************************************************)
C20_MutationsAllOrNothing ==
    fpc = "failed" => (src = orig /\ out = outorig)

(***************************************************************************)
(* C29: the delay drawn before the hard reset lies within the bounds the   *)
(* resumption scenarios pass to restart_device_with_random_delay,          *)
(* resume_min_delay <= delay <= resume_max_delay, and the hard reset is    *)
(* issued only once that delay has been drawn and slept.                   *)
(***************************************************************************)
C29_ResetAfterDelayWithinBounds ==
    [][/\ (delay' # delay /\ delay' # 0) =>
              /\ scn \in ResumptionScenarios
              /\ delay' \in resume_min_delay .. resume_max_delay
       /\ (resets' # resets) =>
              /\ Cur.op = "reset"
              /\ delay \in resume_min_delay .. resume_max_delay]_vars

\* the longest delay is drawn and the reset is about to be issued
C29_Witness ==
    /\ scn \in ResumptionScenarios
    /\ At("reset")
    /\ delay = resume_max_delay

(***************************************************************************)
(* C30: in the resumption scenarios the fresh service instance uses the    *)
(* port of the first one, the first instance has released its listening    *)
(* socket before the fresh one binds, so the bind of the fresh instance    *)
(* never fails, and two instances never listen on the port together.       *)
(* A child that exited without ever being stopped is one whose bind        *)
(* failed.  terminate() only sends the signal and nothing joins the first  *)
(* child, so the fresh child can reach its bind while the first one still  *)
(* holds the port.                                                         *)
(***************************************************************************)
BindFailed(h) == svc[h].st = "exited" /\ svc[h].stops = 0

C30_FreshInstanceBindsAfterRelease ==
    scn \in ResumptionScenarios =>
        /\ \A h \in Handles : ~BindFailed(h)
        /\ \A g, h \in Handles :
              (g # h /\ svc[g].st = "listening" /\ svc[h].st = "listening")
                  => svc[g].port # svc[h].port
        /\ \A g, h \in Handles :
              (svc[g].st # "none" /\ svc[h].st # "none") => svc[g].port = svc[h].port

(***************************************************************************)
(* C23: the anti-rollback scenario writes the URL of the downgraded        *)
(* artifact only after it wrote the URL of the unmodified artifact and     *)
(* then matched the reboot marker and the "App is valid" marker; it passes *)
(* only if the last thing matched is the version-mismatch rejection, which *)
(* the device printed after the "App is valid" line, so a device that      *)
(* prints the success marker instead makes the scenario fail.              *)
(***************************************************************************)
DowngradedArtifact == "advanced_https_ota_lower_sec_version.bin"
\* the statements before statement i that are expectations
ExpectsBefore(s, i) == Cardinality({j \in 1..(i - 1) : IsExpect(Steps(s)[j])})

C23_DowngradeOnlyAfterConfirmedUpdate ==
    scn = "anti_rollback" =>
        /\ (mode = "run" /\ Cur.op = "write" /\ Cur.file = DowngradedArtifact) =>
              /\ \E i, j, k \in 1..(pc - 1) :
                    /\ i < j /\ j < k
                    /\ Steps(scn)[i] = SWrite(server_port, "advanced_https_ota.bin")
                    /\ IsExpect(Steps(scn)[j]) /\ Steps(scn)[j].pat = "Loaded"
                    /\ IsExpect(Steps(scn)[k]) /\ Steps(scn)[k].pat = "AppValid"
              /\ Len(matches) = ExpectsBefore(scn, pc)
              /\ \E a, b \in 1..Len(matches) :
                    /\ a < b
                    /\ stream[matches[a]] = "Loaded"
                    /\ stream[matches[b]] = "AppValid"
                    /\ a > ExpectsBefore(scn,
                           CHOOSE i \in 1..Len(Steps(scn)) :
                               Steps(scn)[i] = SWrite(server_port, "advanced_https_ota.bin"))
        /\ Passed =>
              /\ matches # <<>>
              /\ stream[matches[Len(matches)]] = "SecVerMismatch"
              /\ \E b \in 1..(Len(matches) - 1) :
                    stream[matches[b]] = "AppValid"
        /\ (mode = "done" /\ ~\E i \in 1..Len(stream) : stream[i] = "SecVerMismatch")
              => Failed

\* the scenario passed: the rejection of the downgraded artifact was matched
C23_Witness ==
    /\ scn = "anti_rollback"
    /\ Passed
    /\ stream[Len(stream)] = "SecVerMismatch"

(***************************************************************************)
(* C26: starting, running or stopping a service leaves the coordinator's   *)
(* own state alone, its working directory included.  start_https_server    *)
(* and start_redirect_server call os.chdir in the child process, but       *)
(* start_chunked_server is called by the coordinator itself and calls      *)
(* os.chdir(ota_image_dir) before it spawns openssl.                       *)
(***************************************************************************)
\* the coordinator is at a statement that creates, starts or stops a service, or a
\* service process takes a step of its own
ServiceOperation ==
    \/ mode = "run" /\ Cur.op \in {"new", "start", "popen", "terminate"}
    \/ mode = "finally"
    \/ svc' # svc

C26_ServicesLeaveCoordinatorAlone ==
    [][ServiceOperation => cwd' = cwd]_vars

(***************************************************************************)
(* C28: the random artifact has exactly the requested length, and its      *)
(* first byte is the sentinel 0, never the image magic 0xE9, whatever the  *)
(* generator draws for the other bytes (each of them below 255).           *)
(***************************************************************************)
C28_RandomArtifactLengthAndSentinel ==
    op.kind = "random" =>
        /\ (out.exists /\ out.data # <<>>) =>
              /\ out.data[1] = 0
              /\ out.data[1] # image_magic
        /\ fpc = "done" =>
              /\ out.exists
              /\ Len(out.data) = op.size
              /\ \A i \in 2..Len(out.data) : out.data[i] \in 0..(randrange_stop - 1)
              /\ src = orig

\* a random artifact of more than one byte is complete, and the generator drew the
\* image magic for its second byte
C28_Witness ==
    /\ op.kind = "random"
    /\ fpc = "done"
    /\ op.size > 1
    /\ Len(out.data) = op.size
    /\ out.data[2] = image_magic

(***************************************************************************)
(* C27: a truncation to N bytes that completes leaves a generated file     *)
(* holding exactly the first min(N, length of the source) bytes of the     *)
(* source, for the N of the truncated-header scenario as for the N of the  *)
(* truncated-body scenario, and leaves the source as it was.               *)
(***************************************************************************)
C27_TruncationIsPrefix ==
    (op.kind = "truncate" /\ fpc = "done") =>
        /\ out.exists
        /\ Len(out.data) = Min(op.size, Len(orig.data))
        /\ \A i \in 1..Len(out.data) : out.data[i] = orig.data[i]
        /\ src = orig

\* a source longer than N = truncated_header_size has been cut to N bytes
C27_Witness ==
    /\ op.kind = "truncate"
    /\ fpc = "done"
    /\ op.size = truncated_header_size
    /\ Len(orig.data) > op.size
    /\ Len(out.data) = op.size

(***************************************************************************)
(* The scenarios that prepare an artifact, run together with the file      *)
(* operation their first statements perform.                               *)
(***************************************************************************)
ArtifactScenarios ==
    {"truncated_bin", "truncated_header", "random", "invalid_chip_id",
     "anti_rollback", "aligned", "min_chip_rev", "max_chip_rev"}

\* the operation each scenario applies, with the arguments it passes
MutationOf(s) ==
    CASE s = "truncated_bin" ->
             {[NoOp EXCEPT !.kind = "truncate", !.size = truncated_bin_size]}
      [] s = "truncated_header" ->
             {[NoOp EXCEPT !.kind = "truncate", !.size = truncated_header_size]}
      [] s = "random" -> RandomOps
      [] s = "invalid_chip_id" -> {ChipIdOp}
      [] s = "anti_rollback" -> {SecVersionOp}
      [] s = "aligned" -> AlignOps
      [] s = "min_chip_rev" ->
             {[NoOp EXCEPT !.kind = "chip_rev", !.increment_min = TRUE]}
      [] s = "max_chip_rev" ->
             {[NoOp EXCEPT !.kind = "chip_rev", !.min_rev = Some(0), !.max_rev = Some(2)]}

\* the build directories the scenarios are run on: without the artifact, with an
\* artifact too short to hold the patched offsets, and with a longer one
ArtifactSources ==
    {Absent, File(SourceBytes(chip_id_offset, 0)),
     File(SourceBytes(MaxLen, 0)), File(SourceBytes(MaxLen, 255))}

ArtifactInit ==
    /\ ScenarioInit
    /\ scn \in ArtifactScenarios
    /\ HttpOff
    /\ src \in ArtifactSources
    /\ out = Absent
    /\ op \in MutationOf(scn)
    /\ fpc = "start"
    /\ buf = <<>>
    /\ ferr = "none"
    /\ orig = src
    /\ outorig = out
    /\ snap = <<>>

\* the statements the artifact scenarios are made of
ArtifactCoordinator ==
    \/ StepNew \/ StepStart \/ StepPopen
    \/ StepExpectMatch \/ StepExpectTimeout
    \/ StepWrite \/ StepDevSetup \/ StepHostSetup \/ StepRemove
    \/ FinallyStep

\* the file operation runs while the coordinator is at the statements that
\* prepare the artifact
ArtifactNext ==
    \/ ArtifactCoordinator
    \/ \E h \in Handles : ServiceBind(h) \/ ServiceDie(h) \/ ServiceExit(h)
    \/ \E m \in Markers : DeviceEmit(m)
    \/ At("hostsetup") /\ OpenOutput
    \/ At("hostsetup") /\ CopyWrite
    \/ At("hostsetup") /\ SecPatch
    \/ At("hostsetup") /\ PadWrite
    \/ At("hostsetup") /\ RandomOpen
    \/ At("hostsetup") /\ RandomFirst
    \/ At("hostsetup") /\ RandomFill
    \/ At("hostsetup") /\ ChipIdRead
    \/ At("hostsetup") /\ ChipIdWrite
    \/ At("hostsetup") /\ RevRead
    \/ At("hostsetup") /\ RevModify
    \/ At("hostsetup") /\ RevWrite

ArtifactSpec == ArtifactInit /\ [][ArtifactNext]_vars

(***************************************************************************)
(* C21: a mutation whose source is absent fails with the not-found error,  *)
(* one whose read or write does not complete fails with the I/O error; in  *)
(* the scenarios the failure comes before any service is created, the      *)
(* scenario ends with that error, no service is running and no generated   *)
(* file exists.  The generated file is opened 'wb+' before it is written,  *)
(* so a write that fails leaves the file, empty or partly written.         *)
(***************************************************************************)
NotFound == "FileNotFoundError"
IOFailure == {"OSError", "RuntimeError"}

C21_FailedMutationAbortsCleanly ==
    fpc = "failed" =>
        /\ (~orig.exists /\ op.kind # "random") => ferr = NotFound
        /\ (ferr # NotFound /\ ferr # "IndexError") => ferr \in IOFailure
        /\ \A h \in Handles : svc[h].st = "none"
        /\ mode = "done" => (err = ferr /\ Cur.op = "hostsetup")
        /\ ~out.exists

(***************************************************************************)
(* C22: a truncation scenario passes only on the rejection line that fits  *)
(* the truncation length: "esp_https_ota_get_img_desc failed" when the     *)
(* artifact was cut below the image header size, "Image validation failed, *)
(* image is corrupted" when it was cut above it.  A run in which the       *)
(* device prints only the other of the two lines fails.                    *)
(***************************************************************************)
TruncationScenarios == {"truncated_bin", "truncated_header"}
VerdictFor(size) == IF size < image_header_size THEN "ImgDescFailed" ELSE "ImageCorrupted"
Printed(m) == \E i \in 1..Len(stream) : stream[i] = m

C22_VerdictFitsTruncationLength ==
    scn \in TruncationScenarios =>
        /\ op.kind = "truncate"
        /\ Passed =>
              /\ matches # <<>>
              /\ stream[matches[Len(matches)]] = VerdictFor(op.size)
              /\ fpc = "done"
              /\ Len(snap[1].out.data) = Min(op.size, Len(orig.data))
        /\ (mode = "done" /\ ~Printed(VerdictFor(op.size))) => Failed

\* the device answered the truncated header with the generic corruption line only,
\* and the scenario failed on its last expectation
C22_Witness ==
    /\ scn = "truncated_header"
    /\ Failed
    /\ err = "TIMEOUT"
    /\ Len(matches) = Len(ExpectPats(scn)) - 1
    /\ Printed("ImageCorrupted")
    /\ ~Printed("ImgDescFailed")

(***************************************************************************)
(* C24: when a scenario has ended, passed or failed, the build artifact    *)
(* advanced_https_ota.bin holds the bytes it held when the scenario began. *)
(* The two chip-revision scenarios edit that file itself and never put the *)
(* original bytes back.                                                    *)
(***************************************************************************)
C24_BuildArtifactUnchangedByScenario ==
    mode = "done" => src = orig

(***************************************************************************)
(* C25: a file that a scenario generated is removed, or its removal is     *)
(* attempted, before the scenario ends, on the passing and on the failing  *)
(* paths alike, and a removal that fails does not fail the scenario.  The  *)
(* os.remove is the last statement of the try body, not part of the        *)
(* finally block, so an expectation that times out skips it.               *)
(***************************************************************************)
RemoveAttempted == \E i \in 1..(pc - 1) : Steps(scn)[i].op = "remove"

C25_GeneratedArtifactRemovedOnEveryPath ==
    /\ (mode = "done" /\ fpc = "done" /\ out.exists) => RemoveAttempted
    /\ (mode = "done" /\ RemoveAttempted) => Passed

(***************************************************************************)
(* C31: whenever the coordinator is about to write an endpoint URL to the  *)
(* device, it has, since the device last booted (the last boot marker      *)
(* matched or hard reset issued), matched the IPv4 address line and the    *)
(* "Starting Advanced OTA example" line.  The bluedroid scenarios wait for *)
(* "Started advertising." and sleep one second instead of waiting for the  *)
(* readiness line.                                                         *)
(***************************************************************************)
IsBoot(st) == (IsExpect(st) /\ st.pat = "Loaded") \/ st.op = "reset"
\* the last statement before statement i at which the device (re)booted
LastBootBefore(s, i) ==
    LET B == {j \in 1..(i - 1) : IsBoot(Steps(s)[j])}
    IN  IF B = {} THEN 0 ELSE CHOOSE j \in B : \A k \in B : k <= j
\* the expectation of pattern p at statement i has been matched
MatchedAt(i, p) ==
    /\ IsExpect(Steps(scn)[i])
    /\ Steps(scn)[i].pat = p
    /\ ExpectsBefore(scn, i) + 1 <= Len(matches)
    /\ stream[matches[ExpectsBefore(scn, i) + 1]] = p

C31_UrlWrittenAfterAddressAndReadiness ==
    At("write") =>
        LET b == LastBootBefore(scn, pc) IN
        /\ \E i \in (b + 1)..(pc - 1) : MatchedAt(i, "IPv4")
        /\ \E i \in (b + 1)..(pc - 1) : MatchedAt(i, "StartExample")

(***************************************************************************)
(* C32: in a revision-header edit that completes, increment_min wins over  *)
(* an explicit min_rev (the minimum-revision byte becomes (old + 1) mod    *)
(* 256 whatever min_rev says), max_rev, when given, is stored in the       *)
(* maximum-revision byte whatever the other two arguments are, and an edit *)
(* given none of the three leaves the file's content as it was.            *)
(***************************************************************************)
C32_IncrementTakesPrecedence ==
    (fpc = "done" /\ op.kind = "chip_rev") =>
        LET old == orig.data
            new == src.data
            mn == TARGET_OFFSET_MIN_REV + 1
            mx == TARGET_OFFSET_MAX_REV + 1
        IN  /\ (op.increment_min /\ op.min_rev.some) =>
                  new[mn] = (old[mn] + 1) % 256
            /\ op.max_rev.some => new[mx] = op.max_rev.val % 256
            /\ ~op.max_rev.some => (Len(old) >= mx => new[mx] = old[mx])
            /\ (~op.increment_min /\ ~op.min_rev.some /\ ~op.max_rev.some) => src = orig

\* both increment_min and a min_rev that asks for another value were given, with
\* a max_rev, and the edit stored the incremented value
C32_Witness ==
    /\ fpc = "done"
    /\ op.kind = "chip_rev"
    /\ op.increment_min
    /\ op.min_rev.some
    /\ op.max_rev.some
    /\ op.min_rev.val % 256 # (orig.data[TARGET_OFFSET_MIN_REV + 1] + 1) % 256
    /\ src.data[TARGET_OFFSET_MIN_REV + 1] = (orig.data[TARGET_OFFSET_MIN_REV + 1] + 1) % 256
    /\ src.data[TARGET_OFFSET_MAX_REV + 1] = op.max_rev.val % 256

(***************************************************************************)
(* C33 as stated: a revision-header edit that fails before the write-back  *)
(* leaves the file unchanged, and on an existing file of fewer than 18     *)
(* bytes the edit fails without modifying or extending the file.           *)
(* Violated: an edit of the minimum revision alone assigns offset 15 only, *)
(* so it completes on a file of 16 or 17 bytes and changes that byte.      *)
(***************************************************************************)
\* the edit raised at the existence check, at the read or at an assignment
FailedBeforeWriteBack ==
    /\ op.kind = "chip_rev"
    /\ fpc = "failed"
    /\ (ferr = "RuntimeError" => buf = <<>>)
Returned == fpc \in {"done", "failed"}

C33_FailedEditLeavesFileShortFileFails ==
    /\ FailedBeforeWriteBack => src = orig
    /\ (op.kind = "chip_rev" /\ Returned /\ orig.exists
            /\ (op.increment_min \/ op.min_rev.some \/ op.max_rev.some)
            /\ Len(orig.data) < TARGET_OFFSET_MAX_REV + 1) =>
          (fpc = "failed" /\ src = orig)

(***************************************************************************)
(* C33 amended: a revision-header edit that fails before the write-back    *)
(* leaves the file unchanged; on an existing file too short to hold an     *)
(* offset the edit assigns (fewer than 16 bytes for an edit of the minimum *)
(* revision, fewer than 18 bytes for an edit of the maximum revision) the  *)
(* edit fails, with an index error or a read error, without modifying or   *)
(* extending the file.                                                     *)
(***************************************************************************)
AssignsPastEnd ==
    \/ (op.increment_min \/ op.min_rev.some) /\ Len(orig.data) < TARGET_OFFSET_MIN_REV + 1
    \/ op.max_rev.some /\ Len(orig.data) < TARGET_OFFSET_MAX_REV + 1

C33_FailedEditLeavesFile ==
    /\ FailedBeforeWriteBack => src = orig
    /\ (op.kind = "chip_rev" /\ Returned /\ orig.exists /\ AssignsPastEnd) =>
          /\ fpc = "failed"
          /\ ferr \in {"IndexError", "RuntimeError"}
          /\ src = orig

\* a 17-byte file holds the minimum-revision offset but not the maximum-revision
\* one: the edit that sets both raised IndexError and the file is as it was
C33_Witness ==
    /\ op.kind = "chip_rev"
    /\ fpc = "failed"
    /\ ferr = "IndexError"
    /\ op.increment_min
    /\ op.max_rev.some
    /\ Len(orig.data) = TARGET_OFFSET_MAX_REV
    /\ src = orig

====
